---- MODULE Spec2Model ----
(***************************************************************************)
(* A model of setup.py of VTKCleaver: the resolution of the VTK wheel SDK  *)
(* and of the VTKExternalModule checkout, the search for the SDK's cmake   *)
(* directory, the choice of the python executable, the assembly of the     *)
(* cmake arguments and the call of skbuild's setup().                      *)
(*                                                                         *)
(* A run of setup.py is a fresh process.  The file system (the cache       *)
(* directories) is what one run leaves to the next, so the model is a      *)
(* sequence of at most MaxRuns runs over one file system.                  *)
(***************************************************************************)
EXTENDS Integers, Sequences, FiniteSets, TLC

\* How many times setup.py is run over the same file system.
MaxRuns == 2
\* The most directories matching **/headers/cmake an SDK tree holds.
MaxMatches == 2

----------------------------------------------------------------------------
(* Optional values: os.getenv and shutil.which return None or a string.    *)

None == <<>>
Some(v) == <<v>>

\* os.getenv(name, default)
getenv(e, name, default) == IF e[name] = None THEN default ELSE e[name][1]

----------------------------------------------------------------------------
(* Strings.                                                                *)

Digits == <<"0", "1", "2", "3", "4", "5", "6", "7", "8", "9">>

\* str(n) of a natural number
RECURSIVE str(_)
str(n) == IF n < 10 THEN Digits[n + 1]
          ELSE str(n \div 10) \o Digits[(n % 10) + 1]

\* s.replace(a, b) for a one-character a
RECURSIVE ReplaceIn(_, _, _, _, _)
ReplaceIn(s, a, b, lo, hi) ==
    IF lo > hi THEN ""
    ELSE IF lo = hi
    THEN (IF SubSeq(s, lo, lo) = a THEN b ELSE SubSeq(s, lo, lo))
    ELSE LET mid == (lo + hi) \div 2
         IN  ReplaceIn(s, a, b, lo, mid) \o ReplaceIn(s, a, b, mid + 1, hi)

Replace(s, a, b) == ReplaceIn(s, a, b, 1, Len(s))

----------------------------------------------------------------------------
(* pathlib.  A Path is held as its native string: separated by "\" on      *)
(* win32 and by "/" elsewhere.                                             *)

Sep(platform) == IF platform = "win32" THEN "\\" ELSE "/"

\* Repeated separators collapse and a trailing separator is dropped: a
\* separator is kept when it starts the path or a name follows it.
RECURSIVE CollapseIn(_, _, _, _)
CollapseIn(s, sep, lo, hi) ==
    IF lo > hi THEN ""
    ELSE IF lo = hi
    THEN (IF /\ SubSeq(s, lo, lo) = sep
             /\ lo > 1
             /\ (lo = Len(s) \/ SubSeq(s, lo + 1, lo + 1) = sep)
          THEN "" ELSE SubSeq(s, lo, lo))
    ELSE LET mid == (lo + hi) \div 2
         IN  CollapseIn(s, sep, lo, mid) \o CollapseIn(s, sep, mid + 1, hi)

Collapse(s, sep) == CollapseIn(s, sep, 1, Len(s))

\* "/" is read as a separator on win32 too
Native(platform, s) ==
    IF platform = "win32" THEN Replace(s, "/", "\\") ELSE s

\* Path(s)
Path(platform, s) == Collapse(Native(platform, s), Sep(platform))

\* a / b, for a path a and a relative path b written in normal form
Join(platform, a, b) == a \o Sep(platform) \o Native(platform, b)

\* p.as_posix()
as_posix(platform, p) ==
    IF platform = "win32" THEN Replace(p, "\\", "/") ELSE p

\* Path(".").resolve(): the directory setup.py is run in
Cwd(platform) == IF platform = "win32" THEN "C:\\work" ELSE "/work"

\* Path(__file__).parent.resolve()
vtk_module_source_dir(platform) ==
    IF platform = "win32" THEN "C:\\src\\VTKCleaver" ELSE "/src/VTKCleaver"

----------------------------------------------------------------------------
(* auto_download_vtk_wheel_sdk: the names it computes.                     *)

base_url == "https://vtk.org/files/wheel-sdks/"
prefix == "vtk-wheel-sdk"
default_sdk_version == "9.2.5"

sdk_version(e) == getenv(e, "VTK_WHEEL_SDK_VERSION", default_sdk_version)

\* "".join(map(str, sys.version_info[:2]))
py_version_short(v) == str(v[1]) \o str(v[2])

\* sys.version_info[:2] < (3, 8): tuples compare lexicographically
\* (variant: <= for <)
NeedsM_Inclusive(v) == v[1] < 3 \/ (v[1] = 3 /\ v[2] <= 8)
NeedsM(v) == v[1] < 3 \/ (v[1] = 3 /\ v[2] < 8)

py_version(v) ==
    LET s == py_version_short(v)
        t == "cp" \o s \o "-cp" \o s
    IN  IF NeedsM(v) THEN t \o "m" ELSE t

platform_suffixes ==
    [linux  |-> "manylinux_2_17_x86_64.manylinux2014_x86_64",
     darwin |-> "macosx_10_10_x86_64",
     win32  |-> "win_amd64"]

\* sys.platform in platform_suffixes
Supported(platform) == platform \in DOMAIN platform_suffixes

\* raise NotImplementedError(sys.platform), line 39
\* (variant: the check of line 38 left out, so that line 41 raises)
PlatformError_KeyError(platform) ==
    [type |-> "KeyError", msg |-> platform, line |-> 41]
PlatformError(platform) ==
    [type |-> "NotImplementedError", msg |-> platform, line |-> 39]

\* lines 44-48
\* (variant: ARCHFLAGS not read)
is_arm_MachineOnly(machine, e) == machine = "arm64"
is_arm(machine, e) ==
    machine = "arm64" \/ e["ARCHFLAGS"] = Some("-arch arm64")

platform_suffix(platform, machine, e) ==
    IF platform = "darwin" /\ is_arm(machine, e) THEN "macosx_11_0_arm64"
    ELSE platform_suffixes[platform]

dir_name(platform, machine, v, e) ==
    prefix \o "-" \o sdk_version(e) \o "-" \o py_version(v) \o "-"
    \o platform_suffix(platform, machine, e)

\* Path(".").resolve() / f"_deps/{dir_name}"
\* (variant: the directory named by the prefix alone)
default_install_path_NoTag(platform, machine, v, e) ==
    Join(platform, Cwd(platform), "_deps/" \o prefix)
default_install_path(platform, machine, v, e) ==
    Join(platform, Cwd(platform), "_deps/" \o dir_name(platform, machine, v, e))

\* Path(os.getenv("VTK_WHEEL_SDK_INSTALL_PATH", default_install_path))
install_path(platform, machine, v, e) ==
    IF e["VTK_WHEEL_SDK_INSTALL_PATH"] = None
    THEN default_install_path(platform, machine, v, e)
    ELSE Path(platform, e["VTK_WHEEL_SDK_INSTALL_PATH"][1])

full_name(platform, machine, v, e) ==
    prefix \o "-" \o sdk_version(e) \o "-" \o py_version(v) \o "-"
    \o platform_suffix(platform, machine, e) \o ".tar.xz"

url(platform, machine, v, e) == base_url \o full_name(platform, machine, v, e)

\* the cmake command line of the SDK's fetch
sdk_cmd(platform, machine, v, e) ==
    <<"cmake",
      "-DFETCH_FROM_URL_PROJECT_NAME=" \o prefix,
      "-DFETCH_FROM_URL_INSTALL_LOCATION="
          \o as_posix(platform, install_path(platform, machine, v, e)),
      "-DFETCH_FROM_URL_URL=" \o url(platform, machine, v, e),
      "-P", Join(platform, vtk_module_source_dir(platform), "FetchFromUrl.cmake")>>

----------------------------------------------------------------------------
(* auto_download_vtk_external_module: the names it computes.               *)

external_module_path(platform) ==
    Join(platform, Cwd(platform), "_deps/VTKExternalModule")

external_cmd(platform) ==
    <<"cmake",
      "-DFETCH_VTKExternalModule_INSTALL_LOCATION="
          \o as_posix(platform, external_module_path(platform)),
      "-P", Join(platform, vtk_module_source_dir(platform),
                 "FetchVTKExternalModule.cmake")>>

----------------------------------------------------------------------------
(* The module-level names of setup.py.                                     *)

\* The i-th directory named headers/cmake below root.
TreeMatch(platform, root, i) ==
    Join(platform, root, "vtk" \o str(i) \o ".data/headers/cmake")

\* list(Path(root).glob("**/headers/cmake")) over the file system files,
\* which maps each existing directory to the number of matches below it
cmake_glob(platform, root, files) ==
    LET p == Path(platform, root)
        k == as_posix(platform, p)
        n == IF k \in DOMAIN files THEN files[k] ELSE 0
    IN  [i \in 1..n |-> TreeMatch(platform, p, i)]

\* len(cmake_glob) != 1
\* (variant: only an empty list is rejected)
GlobRejected_AcceptFirst(matches) == Len(matches) = 0
GlobRejected(matches) == Len(matches) # 1

\* the exception of line 110, raised for a root with n matches
GlobError(root, n) ==
    [type |-> "Exception",
     msg  |-> "Unable to find cmake directory in vtk_wheel_sdk_path ["
              \o root \o "]",
     line |-> 110]

\* python3_executable after lines 120-122
\* (variant: the search path first)
python3_executable_WhichFirst(e, which) ==
    IF which # None THEN which ELSE e["Python3_EXECUTABLE"]
python3_executable_of(e, which) ==
    IF e["Python3_EXECUTABLE"] # None THEN e["Python3_EXECUTABLE"] ELSE which

\* whether shutil.which("python") is called (line 121)
WhichConsulted(e) == e["Python3_EXECUTABLE"] = None

\* python3_executable is None (line 124)
\* (variant: the check left out)
PythonMissing_Never(python) == FALSE
PythonMissing(python) == python = None

PythonError ==
    [type |-> "Exception",
     msg  |-> "Unable find python executable, please set Python3_EXECUTABLE",
     line |-> 126]

abi_flag == "-DCMAKE_CXX_FLAGS=-D_GLIBCXX_USE_CXX11_ABI=0"

\* the appends of lines 142-159
\* (variant: the ABI flag read outside the linux branch)
platform_args_AbiOutsideLinux(platform, e) ==
    (IF platform = "linux" THEN <<"-DVTK_USE_X:BOOL=ON">>
     ELSE IF platform = "darwin"
     THEN <<"-DVTK_USE_COCOA:BOOL=ON">>
          \o (IF e["ARCHFLAGS"] = Some("-arch arm64")
              THEN <<"-DCMAKE_SYSTEM_NAME=Darwin">> ELSE <<>>)
     ELSE <<>>)
    \o (IF e["LINUX_VTK_CLEAVER_USE_COMPATIBLE_ABI"] = Some("1")
        THEN <<abi_flag>> ELSE <<>>)
platform_args(platform, e) ==
    IF platform = "linux"
    THEN <<"-DVTK_USE_X:BOOL=ON">>
         \o (IF e["LINUX_VTK_CLEAVER_USE_COMPATIBLE_ABI"] = Some("1")
             THEN <<abi_flag>> ELSE <<>>)
    ELSE IF platform = "darwin"
    THEN <<"-DVTK_USE_COCOA:BOOL=ON">>
         \o (IF e["ARCHFLAGS"] = Some("-arch arm64")
             THEN <<"-DCMAKE_SYSTEM_NAME=Darwin">> ELSE <<>>)
    ELSE <<>>

\* the list of lines 128-140
universal_args(platform, cmake_path, external_path, python) ==
    <<"-DVTK_MODULE_NAME:STRING=Cleaver",
      "-DVTK_MODULE_SOURCE_DIR:PATH=" \o vtk_module_source_dir(platform),
      "-DVTK_MODULE_CMAKE_MODULE_PATH:PATH=" \o cmake_path,
      "-DVTK_MODULE_SUPERBUILD:BOOL=ON",
      "-DVTK_MODULE_EXTERNAL_PROJECT_DEPENDENCIES:STRING=CLEAVER",
      "-DVTK_MODULE_EXTERNAL_PROJECT_CMAKE_CACHE_ARGS:STRING=VTK_USE_X;VTK_USE_COCOA",
      "-DVTK_DIR:PATH=" \o cmake_path,
      "-DCMAKE_INSTALL_LIBDIR:STRING=lib",
      "-DPython3_EXECUTABLE:FILEPATH=" \o python,
      "-DVTK_WHEEL_BUILD:BOOL=ON",
      "-S", external_path>>

cmake_args(platform, e, cmake_path, external_path, python) ==
    universal_args(platform, cmake_path, external_path, python)
    \o platform_args(platform, e)

----------------------------------------------------------------------------
(* The state.                                                              *)

VARIABLES
    env,                       \* os.environ of the runs
    host,                      \* sys.platform and platform.machine()
    fs,                        \* existing directories -> matches of **/headers/cmake below
    created,                   \* directories a fetch left -> the call that did
    runs,                      \* runs of setup.py started so far
    pc,                        \* where the current run is
    version_info,              \* sys.version_info[:2] of the current run
    vtk_wheel_sdk_path,
    vtk_wheel_sdk_cmake_path,
    vtk_external_module_path,
    python3_executable,
    error,                     \* the exception that ended the run
    dir_names,                 \* the dir_name values the run computed
    exists_checks,             \* the run's calls of exists() and their answers
    subprocess_calls,          \* the command lines the run gave to check_call
    which_calls,               \* what the run's calls of shutil.which returned
    setup_calls                \* the cmake_args of the run's calls of setup()

persistent == <<env, host, fs, created, runs>>
locals == <<vtk_wheel_sdk_path, vtk_wheel_sdk_cmake_path,
            vtk_external_module_path, python3_executable>>
observed == <<dir_names, exists_checks, subprocess_calls, which_calls, setup_calls>>
vars == <<persistent, pc, version_info, locals, error, observed>>

Platforms == {"linux", "darwin", "win32", "freebsd"}
Machines == {"x86_64", "arm64"}
VersionInfos == {<<3, 7>>, <<3, 10>>}

Environments ==
    [VTK_WHEEL_SDK_VERSION                : {None, Some("9.3.0")},
     VTK_WHEEL_SDK_INSTALL_PATH           : {None, Some("/opt/sdk/")},
     VTK_WHEEL_SDK_PATH                   : {None, Some("/opt/vtk-sdk")},
     VTK_EXTERNAL_MODULE_PATH             : {None, Some("/opt/VTKExternalModule")},
     Python3_EXECUTABLE                   : {None, Some("/usr/bin/python3")},
     ARCHFLAGS                            : {None, Some("-arch arm64")},
     LINUX_VTK_CLEAVER_USE_COMPATIBLE_ABI : {None, Some("0"), Some("1")}]

\* platform.machine() is read on darwin only (line 43)
Hosts ==
    {h \in [platform : Platforms, machine : Machines] :
        h.platform # "darwin" => h.machine = "x86_64"}

\* what shutil.which("python") can return
WhichResults == {None, Some("/usr/local/bin/python")}

\* What subprocess.check_call(cmake -P Fetch*.cmake) can do: create the
\* install location and return 0, fail leaving nothing, or fail (or be
\* interrupted) leaving the install location behind.
FetchOutcomes == {"ok", "failed", "partial"}

NoFiles == [p \in {} |-> 0]

\* VTK_WHEEL_SDK_PATH is not None (line 104)
\* (variant: the variable is not read)
SdkPathGiven_Never(e) == FALSE
SdkPathGiven(e) == e["VTK_WHEEL_SDK_PATH"] # None

\* VTK_EXTERNAL_MODULE_PATH is not None (line 115)
ExternalPathGiven(e) == e["VTK_EXTERNAL_MODULE_PATH"] # None

\* a call of exists(), of the SDK's ("sdk") or the external module's ("ext")
\* resolver, and its answer
Check(what, path, found) == [what |-> what, path |-> path, found |-> found]

\* the fetch that left a directory behind
Creation(what, tag, v, outcome) ==
    [what |-> what, tag |-> tag, version_info |-> v, outcome |-> outcome]

\* p.exists()
\* (variant: the directory is never found)
Exists_Never(p, files) == FALSE
Exists(p, files) == p \in DOMAIN files

Init ==
    /\ env \in Environments
    /\ host \in Hosts
    /\ IF env["VTK_WHEEL_SDK_PATH"] = None
       THEN fs = NoFiles
       ELSE \E n \in 0..MaxMatches :
                fs = (as_posix(host.platform,
                               Path(host.platform, env["VTK_WHEEL_SDK_PATH"][1])) :> n)
    /\ created = [p \in {} |-> Creation("", "", <<0, 0>>, "")]
    /\ runs = 0
    /\ pc = "idle"
    /\ version_info = <<3, 10>>
    /\ vtk_wheel_sdk_path = None
    /\ vtk_wheel_sdk_cmake_path = None
    /\ vtk_external_module_path = None
    /\ python3_executable = None
    /\ error = None
    /\ dir_names = <<>>
    /\ exists_checks = <<>>
    /\ subprocess_calls = <<>>
    /\ which_calls = <<>>
    /\ setup_calls = <<>>

\* raise: the run ends with the exception err
Raise(err) ==
    /\ error' = Some(err)
    /\ pc' = "failed"

----------------------------------------------------------------------------
(* A run of setup.py starts: a fresh interpreter.                          *)

StartRun ==
    /\ pc \in {"idle", "done", "failed"}
    /\ runs < MaxRuns
    /\ runs' = runs + 1
    /\ version_info' \in VersionInfos
    /\ pc' = "sdk"
    /\ vtk_wheel_sdk_path' = None
    /\ vtk_wheel_sdk_cmake_path' = None
    /\ vtk_external_module_path' = None
    /\ python3_executable' = None
    /\ error' = None
    /\ dir_names' = <<>>
    /\ exists_checks' = <<>>
    /\ subprocess_calls' = <<>>
    /\ which_calls' = <<>>
    /\ setup_calls' = <<>>
    /\ UNCHANGED <<env, host, fs, created>>

(* Lines 103-105, with auto_download_vtk_wheel_sdk (lines 14-78).          *)

auto_download_vtk_wheel_sdk ==
    LET platform == host.platform
        name == dir_name(platform, host.machine, version_info, env)
        p    == as_posix(platform,
                         install_path(platform, host.machine, version_info, env))
    IN  IF ~Supported(platform)
        THEN /\ Raise(PlatformError(platform))
             /\ UNCHANGED <<fs, created, vtk_wheel_sdk_path, dir_names,
                            exists_checks, subprocess_calls>>
        ELSE /\ dir_names' = Append(dir_names, name)
             /\ exists_checks' =
                    Append(exists_checks, Check("sdk", p, Exists(p, fs)))
             /\ IF Exists(p, fs)
                THEN /\ vtk_wheel_sdk_path' = Some(p)
                     /\ pc' = "glob"
                     /\ UNCHANGED <<fs, created, error, subprocess_calls>>
                ELSE \E outcome \in FetchOutcomes, n \in 0..MaxMatches :
                     /\ subprocess_calls' =
                            Append(subprocess_calls,
                                   sdk_cmd(platform, host.machine, version_info, env))
                     /\ IF outcome = "failed"
                        THEN UNCHANGED <<fs, created>>
                        ELSE /\ fs' = (p :> n) @@ fs
                             /\ created' =
                                    (p :> Creation("sdk", name, version_info,
                                                   outcome)) @@ created
                     /\ IF outcome = "ok"
                        THEN /\ vtk_wheel_sdk_path' = Some(p)
                             /\ pc' = "glob"
                             /\ UNCHANGED error
                        ELSE /\ Raise([type |-> "CalledProcessError",
                                       msg |-> "cmake", line |-> 76])
                             /\ UNCHANGED vtk_wheel_sdk_path

ResolveSdk ==
    /\ pc = "sdk"
    /\ IF SdkPathGiven(env)
       THEN /\ vtk_wheel_sdk_path' = env["VTK_WHEEL_SDK_PATH"]
            /\ pc' = "glob"
            /\ UNCHANGED <<fs, created, error, dir_names, exists_checks,
                           subprocess_calls>>
       ELSE auto_download_vtk_wheel_sdk
    /\ UNCHANGED <<env, host, runs, version_info, vtk_wheel_sdk_cmake_path,
                   vtk_external_module_path, python3_executable,
                   which_calls, setup_calls>>

(* Lines 107-112.                                                          *)

FindCmakeDir ==
    /\ pc = "glob"
    /\ LET matches == cmake_glob(host.platform, vtk_wheel_sdk_path[1], fs)
       IN  IF GlobRejected(matches)
           THEN /\ Raise(GlobError(vtk_wheel_sdk_path[1], Len(matches)))
                /\ UNCHANGED vtk_wheel_sdk_cmake_path
           ELSE /\ vtk_wheel_sdk_cmake_path' = Some(matches[1])
                /\ pc' = "ext"
                /\ UNCHANGED error
    /\ UNCHANGED <<persistent, version_info, vtk_wheel_sdk_path,
                   vtk_external_module_path, python3_executable, observed>>

(* Lines 114-118, with auto_download_vtk_external_module (lines 81-100).   *)

auto_download_vtk_external_module ==
    LET platform == host.platform
        p == as_posix(platform, external_module_path(platform))
    IN  /\ exists_checks' =
               Append(exists_checks, Check("ext", p, Exists(p, fs)))
        /\ IF Exists(p, fs)
           THEN /\ vtk_external_module_path' = Some(p)
                /\ pc' = "python"
                /\ UNCHANGED <<fs, created, error, subprocess_calls>>
           ELSE \E outcome \in FetchOutcomes :
                /\ subprocess_calls' =
                       Append(subprocess_calls, external_cmd(platform))
                /\ IF outcome = "failed"
                   THEN UNCHANGED <<fs, created>>
                   ELSE /\ fs' = (p :> 0) @@ fs
                        /\ created' =
                               (p :> Creation("ext", "VTKExternalModule",
                                              version_info, outcome))
                               @@ created
                /\ IF outcome = "ok"
                   THEN /\ vtk_external_module_path' = Some(p)
                        /\ pc' = "python"
                        /\ UNCHANGED error
                   ELSE /\ Raise([type |-> "CalledProcessError",
                                  msg |-> "cmake", line |-> 99])
                        /\ UNCHANGED vtk_external_module_path

ResolveExternalModule ==
    /\ pc = "ext"
    /\ IF ExternalPathGiven(env)
       THEN /\ vtk_external_module_path' = env["VTK_EXTERNAL_MODULE_PATH"]
            /\ pc' = "python"
            /\ UNCHANGED <<fs, created, error, exists_checks, subprocess_calls>>
       ELSE auto_download_vtk_external_module
    /\ UNCHANGED <<env, host, runs, version_info, vtk_wheel_sdk_path,
                   vtk_wheel_sdk_cmake_path, python3_executable,
                   dir_names, which_calls, setup_calls>>

(* Lines 120-126.                                                          *)

FindPython ==
    /\ pc = "python"
    /\ \E which \in WhichResults :
          /\ which_calls' = IF WhichConsulted(env)
                            THEN Append(which_calls, which) ELSE which_calls
          /\ python3_executable' = python3_executable_of(env, which)
          /\ IF PythonMissing(python3_executable_of(env, which))
             THEN Raise(PythonError)
             ELSE pc' = "setup" /\ UNCHANGED error
    /\ UNCHANGED <<persistent, version_info, vtk_wheel_sdk_path,
                   vtk_wheel_sdk_cmake_path, vtk_external_module_path,
                   dir_names, exists_checks, subprocess_calls, setup_calls>>

(* Lines 128-200: cmake_args, the README and setup().                      *)

Setup ==
    /\ pc = "setup"
    /\ \E readme \in BOOLEAN :
          IF readme
          THEN /\ setup_calls' =
                      Append(setup_calls,
                             cmake_args(host.platform, env,
                                        vtk_wheel_sdk_cmake_path[1],
                                        vtk_external_module_path[1],
                                        python3_executable[1]))
               /\ pc' = "done"
               /\ UNCHANGED error
          ELSE /\ Raise([type |-> "FileNotFoundError",
                          msg |-> "README.md", line |-> 161])
               /\ UNCHANGED setup_calls
    /\ UNCHANGED <<persistent, version_info, locals,
                   dir_names, exists_checks, subprocess_calls, which_calls>>

Next ==
    \/ StartRun
    \/ ResolveSdk
    \/ FindCmakeDir
    \/ ResolveExternalModule
    \/ FindPython
    \/ Setup

Spec == Init /\ [][Next]_vars

----------------------------------------------------------------------------
(* The names auto_download_vtk_wheel_sdk computes (lines 20-56), on their  *)
(* own: from any platform, machine, interpreter version and environment,   *)
(* up to the call of exists().                                             *)

TagVersionInfos ==
    {<<2, 7>>, <<3, 6>>, <<3, 7>>, <<3, 8>>, <<3, 9>>, <<3, 10>>, <<3, 12>>}

TagEnvironments ==
    [VTK_WHEEL_SDK_VERSION                : {None, Some("9.3.0")},
     VTK_WHEEL_SDK_INSTALL_PATH           : {None, Some("/opt/sdk/")},
     VTK_WHEEL_SDK_PATH                   : {None},
     VTK_EXTERNAL_MODULE_PATH             : {None},
     Python3_EXECUTABLE                   : {None},
     ARCHFLAGS                            : {None, Some("-arch arm64"),
                                             Some("-arch x86_64")},
     LINUX_VTK_CLEAVER_USE_COMPATIBLE_ABI : {None}]

TagInit ==
    /\ env \in TagEnvironments
    /\ host \in [platform : Platforms, machine : Machines]
    /\ version_info \in TagVersionInfos
    /\ fs = NoFiles
    /\ created = [p \in {} |-> Creation("", "", <<0, 0>>, "")]
    /\ runs = 1
    /\ pc = "sdk"
    /\ vtk_wheel_sdk_path = None
    /\ vtk_wheel_sdk_cmake_path = None
    /\ vtk_external_module_path = None
    /\ python3_executable = None
    /\ error = None
    /\ dir_names = <<>>
    /\ exists_checks = <<>>
    /\ subprocess_calls = <<>>
    /\ which_calls = <<>>
    /\ setup_calls = <<>>

\* lines 20-39, on a platform that has no SDK
RejectPlatform ==
    /\ pc = "sdk"
    /\ ~Supported(host.platform)
    /\ Raise(PlatformError(host.platform))
    /\ UNCHANGED <<persistent, version_info, locals, observed>>

\* lines 20-58, on a platform that has one
ComputeNames ==
    /\ pc = "sdk"
    /\ Supported(host.platform)
    /\ dir_names' =
           Append(dir_names,
                  dir_name(host.platform, host.machine, version_info, env))
    /\ exists_checks' =
           Append(exists_checks,
                  Check("sdk",
                        as_posix(host.platform,
                                 install_path(host.platform, host.machine,
                                              version_info, env)),
                        FALSE))
    /\ pc' = "exists"
    /\ UNCHANGED <<persistent, version_info, locals, error,
                   subprocess_calls, which_calls, setup_calls>>

TagNext ==
    \/ RejectPlatform
    \/ ComputeNames

SpecTag == TagInit /\ [][TagNext]_vars

----------------------------------------------------------------------------
(* What the properties below read off a state.                             *)

Range(q) == {q[i] : i \in DOMAIN q}

\* needle in s
Contains(s, needle) ==
    \E i \in 1..(Len(s) - Len(needle) + 1) :
        SubSeq(s, i, i + Len(needle) - 1) = needle

StartsWith(s, t) == Len(s) >= Len(t) /\ SubSeq(s, 1, Len(t)) = t

EndsWith(s, t) ==
    Len(s) >= Len(t) /\ SubSeq(s, Len(s) - Len(t) + 1, Len(s)) = t

\* the run's invocations of the SDK's fetch and of the external module's
SdkFetches ==
    {i \in DOMAIN subprocess_calls :
        subprocess_calls[i][2] = "-DFETCH_FROM_URL_PROJECT_NAME=vtk-wheel-sdk"}
ExternalFetches ==
    {i \in DOMAIN subprocess_calls :
        StartsWith(subprocess_calls[i][2],
                   "-DFETCH_VTKExternalModule_INSTALL_LOCATION=")}

\* the run's calls of exists() by the SDK's resolver and by the external module's
SdkChecks == {i \in DOMAIN exists_checks : exists_checks[i].what = "sdk"}
ExternalChecks == {i \in DOMAIN exists_checks : exists_checks[i].what = "ext"}

\* the run failed at the given line
FailedAt(line) == pc = "failed" /\ error # None /\ error[1].line = line

\* the run has left lines 103-105, lines 107-112, lines 114-118, lines 120-126
SdkStepOver == pc \notin {"idle", "sdk"}
GlobStepOver ==
    \/ pc \in {"ext", "python", "setup", "done"}
    \/ (pc = "failed" /\ error[1].line >= 99)
ExternalStepOver ==
    \/ pc \in {"python", "setup", "done"}
    \/ (pc = "failed" /\ error[1].line >= 99 /\ error[1].line # 110)
PythonStepOver ==
    \/ pc \in {"setup", "done"}
    \/ (pc = "failed" /\ error[1].line >= 126)

\* the number of directories matching **/headers/cmake below the SDK path
MatchCount ==
    IF vtk_wheel_sdk_path[1] \in DOMAIN fs THEN fs[vtk_wheel_sdk_path[1]] ELSE 0

\* the current directory, as as_posix() writes it
CwdPosix == IF host.platform = "win32" THEN "C:/work" ELSE "/work"

----------------------------------------------------------------------------
(* C1.  Idempotence of the fetchers across runs: a directory that a fetch, *)
(* completed or interrupted, has left on disk stays there; when a run      *)
(* with the same platform, interpreter version and environment as that     *)
(* fetch resolves the SDK, the step invokes no fetch and returns the very  *)
(* path the fetch was given; the same for the external module and its      *)
(* fixed path.                                                             *)
C1_Idempotent ==
    [][\A p \in DOMAIN created :
          /\ p \in DOMAIN fs'
          /\ (/\ pc = "sdk"
              /\ pc' # "sdk"
              /\ created[p].what = "sdk"
              /\ created[p].version_info = version_info)
             => /\ subprocess_calls' = subprocess_calls
                /\ vtk_wheel_sdk_path' = Some(p)
                /\ pc' = "glob"
          /\ (/\ pc = "ext"
              /\ pc' # "ext"
              /\ created[p].what = "ext")
             => /\ subprocess_calls' = subprocess_calls
                /\ vtk_external_module_path' = Some(p)
                /\ pc' = "python"]_vars

\* A second run has resolved the SDK, without a fetch, from the directory
\* an interrupted fetch of the first run left.
C1_Witness ==
    /\ runs = 2
    /\ pc = "glob"
    /\ subprocess_calls = <<>>
    /\ \E p \in DOMAIN created :
          /\ created[p].what = "sdk"
          /\ created[p].outcome = "partial"
          /\ created[p].version_info = version_info
          /\ vtk_wheel_sdk_path = Some(p)

(* C2.  Override precedence: when VTK_WHEEL_SDK_PATH is set the SDK path   *)
(* is exactly its value and the run computes no dir_name, calls exists()   *)
(* on no SDK path and invokes no SDK fetch; when VTK_EXTERNAL_MODULE_PATH  *)
(* is set the external module's path is exactly its value and the run      *)
(* calls exists() on no external-module path and invokes no fetch of it.   *)
C2_OverridePrecedence ==
    /\ (env["VTK_WHEEL_SDK_PATH"] # None /\ SdkStepOver)
       => /\ vtk_wheel_sdk_path = env["VTK_WHEEL_SDK_PATH"]
          /\ dir_names = <<>>
          /\ SdkChecks = {}
          /\ SdkFetches = {}
    /\ (env["VTK_EXTERNAL_MODULE_PATH"] # None /\ ExternalStepOver)
       => /\ vtk_external_module_path = env["VTK_EXTERNAL_MODULE_PATH"]
          /\ ExternalChecks = {}
          /\ ExternalFetches = {}

\* A run with both overrides set has handed off with the two given paths.
C2_Witness ==
    /\ pc = "done"
    /\ vtk_wheel_sdk_path = Some("/opt/vtk-sdk")
    /\ vtk_external_module_path = Some("/opt/VTKExternalModule")
    /\ exists_checks = <<>>
    /\ subprocess_calls = <<>>

(* C3, as claimed.  On a platform other than linux, darwin and win32, and  *)
(* whatever the environment, the run fails with NotImplementedError and    *)
(* has called exists() on nothing, invoked no fetch and not called setup().*)
C3_UnsupportedAlwaysFails ==
    (host.platform \notin {"linux", "darwin", "win32"} /\ SdkStepOver)
    => /\ pc = "failed"
       /\ error[1].type = "NotImplementedError"
       /\ exists_checks = <<>>
       /\ subprocess_calls = <<>>
       /\ setup_calls = <<>>

(* C3, amended.  On a platform other than linux, darwin and win32, when    *)
(* VTK_WHEEL_SDK_PATH is not set, the run fails with NotImplementedError   *)
(* naming the platform and has called exists() on nothing, invoked no      *)
(* fetch and not called setup().                                           *)
C3_UnsupportedFailsWithoutSdkPath ==
    (/\ host.platform \notin {"linux", "darwin", "win32"}
     /\ env["VTK_WHEEL_SDK_PATH"] = None
     /\ SdkStepOver)
    => /\ pc = "failed"
       /\ error[1].type = "NotImplementedError"
       /\ error[1].msg = host.platform
       /\ exists_checks = <<>>
       /\ subprocess_calls = <<>>
       /\ setup_calls = <<>>

\* A run on freebsd without VTK_WHEEL_SDK_PATH has failed.
C3_Witness ==
    /\ host.platform = "freebsd"
    /\ env["VTK_WHEEL_SDK_PATH"] = None
    /\ pc = "failed"
    /\ error[1].type = "NotImplementedError"

(* C4, as claimed.  With exactly one match the search returns it; with     *)
(* none it fails with a message holding the searched root; with more than  *)
(* one it fails with an error distinct from the one of no match, whose     *)
(* message holds the searched root and the number of matches.              *)
C4_DistinctErrors ==
    GlobStepOver =>
        /\ MatchCount = 1
           => /\ vtk_wheel_sdk_cmake_path # None
              /\ ~FailedAt(110)
        /\ MatchCount = 0
           => /\ FailedAt(110)
              /\ Contains(error[1].msg, vtk_wheel_sdk_path[1])
        /\ MatchCount > 1
           => /\ FailedAt(110)
              /\ Contains(error[1].msg, vtk_wheel_sdk_path[1])
              /\ Contains(error[1].msg, str(MatchCount))
              /\ <<error[1].type, error[1].msg>>
                 # <<GlobError(vtk_wheel_sdk_path[1], 0).type,
                     GlobError(vtk_wheel_sdk_path[1], 0).msg>>

(* C4, amended.  With exactly one match the search returns it, a directory *)
(* headers/cmake below the searched root; with none or with more than one  *)
(* it fails with one and the same Exception, "Unable to find cmake         *)
(* directory in vtk_wheel_sdk_path [<root>]", which holds the searched     *)
(* root and nothing of the number of matches.                              *)
C4_OneErrorForAnyMiscount ==
    GlobStepOver =>
        /\ MatchCount = 1
           => /\ vtk_wheel_sdk_cmake_path # None
              /\ ~FailedAt(110)
              /\ StartsWith(as_posix(host.platform, vtk_wheel_sdk_cmake_path[1]),
                            vtk_wheel_sdk_path[1] \o "/")
              /\ EndsWith(as_posix(host.platform, vtk_wheel_sdk_cmake_path[1]),
                          "/headers/cmake")
        /\ MatchCount # 1
           => /\ pc = "failed"
              /\ vtk_wheel_sdk_cmake_path = None
              /\ error[1] =
                    [type |-> "Exception",
                     msg  |-> "Unable to find cmake directory in vtk_wheel_sdk_path ["
                              \o vtk_wheel_sdk_path[1] \o "]",
                     line |-> 110]

\* The search has failed on a tree with two matches.
C4_Witness ==
    /\ FailedAt(110)
    /\ MatchCount = 2

(* C5.  No partial success: a run calls setup() at most once, and only     *)
(* once the SDK path, the cmake directory, the external module's path and  *)
(* the python executable have been found, each after the one before; a     *)
(* run that failed at any step has not called setup().                     *)
C5_NoPartialSuccess ==
    /\ Len(setup_calls) <= 1
    /\ setup_calls # <<>> => (pc = "done" /\ error = None)
    /\ pc = "failed" => (setup_calls = <<>> /\ error # None)
    /\ pc \in {"setup", "done"} => python3_executable # None
    /\ python3_executable # None => vtk_external_module_path # None
    /\ vtk_external_module_path # None => vtk_wheel_sdk_cmake_path # None
    /\ vtk_wheel_sdk_cmake_path # None => vtk_wheel_sdk_path # None

\* A run that fetched both dependencies has called setup() once.
C5_Witness ==
    /\ pc = "done"
    /\ Len(setup_calls) = 1
    /\ Len(subprocess_calls) = 2

(* C6.  The artifact tag: on every supported platform, for every          *)
(* interpreter version and version setting, dir_name is                    *)
(* "vtk-wheel-sdk-<version>-cp<MajorMinor>-cp<MajorMinor><m?>-<suffix>",   *)
(* with <version> the value of VTK_WHEEL_SDK_VERSION when set and 9.2.5    *)
(* otherwise, and "m" appended exactly below 3.8; with no                  *)
(* VTK_WHEEL_SDK_INSTALL_PATH the path checked is _deps/<tag> under the    *)
(* current directory; linux with 3.10 and no version set gives             *)
(* vtk-wheel-sdk-9.2.5-cp310-cp310-manylinux_2_17_x86_64.manylinux2014_x86_64. *)
C6_TagRendering ==
    pc = "exists" =>
        LET version == IF env["VTK_WHEEL_SDK_VERSION"] = None THEN "9.2.5"
                       ELSE env["VTK_WHEEL_SDK_VERSION"][1]
            runtime == CASE version_info = <<2, 7>>  -> "cp27-cp27m"
                         [] version_info = <<3, 6>>  -> "cp36-cp36m"
                         [] version_info = <<3, 7>>  -> "cp37-cp37m"
                         [] version_info = <<3, 8>>  -> "cp38-cp38"
                         [] version_info = <<3, 9>>  -> "cp39-cp39"
                         [] version_info = <<3, 10>> -> "cp310-cp310"
                         [] version_info = <<3, 12>> -> "cp312-cp312"
            suffixes == CASE host.platform = "linux"
                               -> {"manylinux_2_17_x86_64.manylinux2014_x86_64"}
                          [] host.platform = "darwin"
                               -> {"macosx_10_10_x86_64", "macosx_11_0_arm64"}
                          [] host.platform = "win32"
                               -> {"win_amd64"}
        IN  /\ \E suffix \in suffixes :
                  dir_names[1] = "vtk-wheel-sdk-" \o version \o "-" \o runtime
                                 \o "-" \o suffix
            /\ env["VTK_WHEEL_SDK_INSTALL_PATH"] = None
               => exists_checks[1].path = CwdPosix \o "/_deps/" \o dir_names[1]
            /\ (/\ host.platform = "linux"
                /\ version_info = <<3, 10>>
                /\ env["VTK_WHEEL_SDK_VERSION"] = None)
               => dir_names[1] =
                  "vtk-wheel-sdk-9.2.5-cp310-cp310-manylinux_2_17_x86_64.manylinux2014_x86_64"

\* The tag of version 9.3.0 for Python 3.7 on win32, and its cache path.
C6_Witness ==
    /\ pc = "exists"
    /\ dir_names = <<"vtk-wheel-sdk-9.3.0-cp37-cp37m-win_amd64">>
    /\ exists_checks[1].path =
           "C:/work/_deps/vtk-wheel-sdk-9.3.0-cp37-cp37m-win_amd64"

(* C7.  On darwin the platform suffix is macosx_11_0_arm64 if and only if  *)
(* platform.machine() is arm64 or ARCHFLAGS is "-arch arm64", and          *)
(* macosx_10_10_x86_64 otherwise.                                          *)
C7_DarwinArchitecture ==
    (pc = "exists" /\ host.platform = "darwin") =>
        LET arm == \/ host.machine = "arm64"
                   \/ env["ARCHFLAGS"] = Some("-arch arm64")
        IN  /\ arm <=> EndsWith(dir_names[1], "-macosx_11_0_arm64")
            /\ ~arm <=> EndsWith(dir_names[1], "-macosx_10_10_x86_64")

\* An Intel host with ARCHFLAGS asking for arm64 got the ARM64 suffix.
C7_Witness ==
    /\ pc = "exists"
    /\ host.platform = "darwin"
    /\ host.machine = "x86_64"
    /\ env["ARCHFLAGS"] = Some("-arch arm64")
    /\ EndsWith(dir_names[1], "-macosx_11_0_arm64")

(* C8.  The cmake_args given to setup() hold                               *)
(* -DCMAKE_CXX_FLAGS=-D_GLIBCXX_USE_CXX11_ABI=0 if and only if the         *)
(* platform is linux and LINUX_VTK_CLEAVER_USE_COMPATIBLE_ABI is "1"; on   *)
(* win32 nothing follows the universal options, which end with "-S" and    *)
(* the external module's path.                                             *)
C8_LegacyAbiFlag ==
    \A i \in DOMAIN setup_calls :
        LET args == setup_calls[i]
        IN  /\ "-DCMAKE_CXX_FLAGS=-D_GLIBCXX_USE_CXX11_ABI=0" \in Range(args)
               <=> (/\ host.platform = "linux"
                    /\ env["LINUX_VTK_CLEAVER_USE_COMPATIBLE_ABI"] = Some("1"))
            /\ host.platform = "win32"
               => /\ args[Len(args) - 1] = "-S"
                  /\ args[Len(args)] = vtk_external_module_path[1]
                  /\ Range(args) \cap {"-DVTK_USE_X:BOOL=ON",
                                       "-DVTK_USE_COCOA:BOOL=ON",
                                       "-DCMAKE_SYSTEM_NAME=Darwin"} = {}

\* A linux run with the flag set to "1" handed the ABI flag to setup().
C8_Witness ==
    /\ host.platform = "linux"
    /\ env["LINUX_VTK_CLEAVER_USE_COMPATIBLE_ABI"] = Some("1")
    /\ Len(setup_calls) = 1
    /\ "-DCMAKE_CXX_FLAGS=-D_GLIBCXX_USE_CXX11_ABI=0" \in Range(setup_calls[1])

(* C9.  The python executable: when Python3_EXECUTABLE is set its value is *)
(* used and shutil.which is not called; when it is unset shutil.which is   *)
(* called once and its answer is used; the run fails at line 126 exactly   *)
(* when neither gave a path; the cmake_args given to setup() carry the     *)
(* path so chosen in -DPython3_EXECUTABLE:FILEPATH=.                       *)
C9_PythonExecutable ==
    /\ (PythonStepOver /\ env["Python3_EXECUTABLE"] # None)
       => /\ python3_executable = env["Python3_EXECUTABLE"]
          /\ which_calls = <<>>
          /\ ~FailedAt(126)
    /\ (PythonStepOver /\ env["Python3_EXECUTABLE"] = None)
       => /\ Len(which_calls) = 1
          /\ python3_executable = which_calls[1]
          /\ which_calls[1] = None <=> FailedAt(126)
    /\ FailedAt(126)
       => error[1].msg =
          "Unable find python executable, please set Python3_EXECUTABLE"
    /\ \A i \in DOMAIN setup_calls :
          /\ python3_executable # None
          /\ ("-DPython3_EXECUTABLE:FILEPATH=" \o python3_executable[1])
             \in Range(setup_calls[i])

\* With Python3_EXECUTABLE unset, the python found on the search path was
\* handed to setup().
C9_Witness ==
    /\ env["Python3_EXECUTABLE"] = None
    /\ pc = "done"
    /\ which_calls = <<Some("/usr/local/bin/python")>>
    /\ "-DPython3_EXECUTABLE:FILEPATH=/usr/local/bin/python"
       \in Range(setup_calls[1])

(* C10, as claimed.  Whether or not VTK_WHEEL_SDK_INSTALL_PATH is set, the *)
(* local path of the SDK is a directory named by its tag, so a directory   *)
(* fetched for one tag is never the resolved path of another tag.          *)
C10_PathNamedByTag ==
    (env["VTK_WHEEL_SDK_PATH"] = None /\ vtk_wheel_sdk_path # None) =>
        /\ EndsWith(vtk_wheel_sdk_path[1], "/" \o dir_names[1])
        /\ vtk_wheel_sdk_path[1] \in DOMAIN created
           => created[vtk_wheel_sdk_path[1]].tag = dir_names[1]

(* C10, amended.  When VTK_WHEEL_SDK_INSTALL_PATH is not set, the local    *)
(* path of the SDK is _deps/<tag> under the current directory, so a        *)
(* directory fetched for one tag is never the resolved path of another     *)
(* tag; when it is set, the local path is its value itself (a trailing     *)
(* separator dropped), whatever the tag.                                   *)
C10_PathNamedByTagByDefault ==
    (env["VTK_WHEEL_SDK_PATH"] = None /\ vtk_wheel_sdk_path # None) =>
        IF env["VTK_WHEEL_SDK_INSTALL_PATH"] = None
        THEN /\ vtk_wheel_sdk_path[1] = CwdPosix \o "/_deps/" \o dir_names[1]
             /\ vtk_wheel_sdk_path[1] \in DOMAIN created
                => created[vtk_wheel_sdk_path[1]].tag = dir_names[1]
        ELSE vtk_wheel_sdk_path[1] \o "/" = env["VTK_WHEEL_SDK_INSTALL_PATH"][1]

\* A second run has resolved its tag's directory while the directory the
\* first run fetched for another tag is on disk beside it.
C10_Witness ==
    /\ runs = 2
    /\ env["VTK_WHEEL_SDK_INSTALL_PATH"] = None
    /\ vtk_wheel_sdk_path # None
    /\ vtk_wheel_sdk_path[1] \in DOMAIN created
    /\ \E q \in DOMAIN created :
          /\ created[q].what = "sdk"
          /\ created[q].tag # dir_names[1]
          /\ q # vtk_wheel_sdk_path[1]

====
